---- MODULE Spec2Model ----
(***************************************************************************)
(* State-machine model of notebooks/part3_multiclass_classification.ipynb: *)
(* the seeding cell, Net, train(), validate(), the two DataLoaders and the *)
(* epoch loop with its final plot.                                         *)
(*                                                                         *)
(* Numbers the notebook holds as floats are fixed-point integers in units  *)
(* of 1/Precision; a float32 tensor keeps MantissaBits significant bits,  *)
(* so a sum reduced on a tensor is rounded after every addition, while a   *)
(* Python float (a double) adds such values exactly.  Python values stored in the recorded series are tagged *)
(* (PyFloat / PyInt / PyList) so that a scalar and a list stay distinct.   *)
(* The tensor library is abstracted: the parameters of Net are one integer *)
(* w, an image is one integer feature x, and the log-probability Net gives *)
(* class c on image x is -((w + x + c) % n_classes) * Precision.           *)
(***************************************************************************)
EXTENDS Integers, Sequences, FiniteSets, TLC

\* ---------------------------------------------------------------- bounds
MaxTrain == 5          \* largest training split (MNIST: 60000)
MaxValid == 3          \* largest validation split (MNIST: 10000)
train_batch_size == 2  \* scaled down from 128
valid_batch_size == 2  \* scaled down from 1000
n_classes == 2         \* scaled down from the 10 outputs of fc2
ParamSpace == 4        \* number of distinct parameter values of Net
RngMod == 64           \* number of states of a random generator
MaxEntropy == 1        \* unseeded generators start anywhere in 0..MaxEntropy
Precision == 100       \* fixed-point unit of a float
script_log_interval == 2  \* scaled down from the 80 of train(80, ...)
MaxLogInterval == 3    \* log_interval values tried on train() alone
MaxBatch == 3          \* batch sizes tried on train() alone
MaxLoader == 4         \* dataset sizes tried on train() alone
MantissaBits == 6      \* significant bits of a float32, scaled down from 24

\* ------------------------------------------------------ program constants
seed == 20
num_epochs == 10

\* ------------------------------------------------------------ Python values
PyFloat(v) == [type |-> "float", val |-> v]
PyInt(v) == [type |-> "int", val |-> v]
PyList(s) == [type |-> "list", items |-> s]
PyNone == [type |-> "None"]

\* list.extend(other) for a list held as a sequence
PyExtend(l, other) == l \o other.items

\* list.append(v)
PyAppend(l, v) == Append(l, v)

\* --------------------------------------------------------- random numbers
NextRng(r) == (r * 5 + 3) % RngMod

RECURSIVE Fact(_)
Fact(n) == IF n <= 1 THEN 1 ELSE n * Fact(n - 1)

RemoveAt(s, i) == SubSeq(s, 1, i - 1) \o SubSeq(s, i + 1, Len(s))

\* the k-th arrangement of the items of s, in lexicographic order
PermOf[s \in Seq(Nat), k \in Nat] ==
  IF Len(s) = 0 THEN <<>>
  ELSE LET f == Fact(Len(s) - 1)
           i == ((k \div f) % Len(s)) + 1
       IN <<s[i]>> \o PermOf[RemoveAt(s, i), k % f]

\* torch.randperm(n) under generator state r
RandPerm(n, r) == PermOf[[i \in 1..n |-> i], r % Fact(n)]

\* ------------------------------------------------------------ data loaders
Sample(x, y) == [x |-> x, y |-> y]

Labels == 0..(n_classes - 1)

\* datasets.MNIST(train=flag): n labelled images
MNIST(flag, n, lab) ==
  [train |-> flag, samples |-> [i \in 1..n |-> Sample(i % 2, lab[i])]]

\* the labelings of the training split that are tried
TrainLabelings(n) ==
  {[i \in 1..n |-> ((i \div 2) + p) % n_classes] : p \in Labels}

\* the labelings of the validation split that are tried: two blocks
ValidLabelings(n) ==
  {[i \in 1..n |-> IF i <= k THEN p ELSE (p + 1) % n_classes] :
     k \in 0..n, p \in Labels}

DataLoader(ds, bs, sh) == [dataset |-> ds, batch_size |-> bs, shuffle |-> sh]

\* len(loader.dataset)
DatasetLen(ld) == Len(ld.dataset.samples)

\* len(loader): number of batches, the last one possibly short
LoaderLen(ld) == (DatasetLen(ld) + ld.batch_size - 1) \div ld.batch_size

\* order in which the sampler visits the dataset
SamplerOrder(ld, r) ==
  IF ld.shuffle THEN RandPerm(DatasetLen(ld), r)
  ELSE [i \in 1..DatasetLen(ld) |-> i]

Min(a, b) == IF a < b THEN a ELSE b

\* the batches a fresh iterator over the loader yields, as index sequences
Batches(ld, order) ==
  [b \in 1..LoaderLen(ld) |->
     SubSeq(order, (b - 1) * ld.batch_size + 1,
            Min(b * ld.batch_size, Len(order)))]

\* (data, target) of one batch
Collate(ld, idxs) ==
  [data |-> [j \in 1..Len(idxs) |-> ld.dataset.samples[idxs[j]].x],
   target |-> [j \in 1..Len(idxs) |-> ld.dataset.samples[idxs[j]].y],
   idxs |-> idxs,
   train |-> ld.dataset.train]

NoBatch == [data |-> <<>>, target |-> <<>>, idxs |-> <<>>, train |-> FALSE]

\* -------------------------------------------------------------------- Net
\* Net.forward on one image: log-probability of every class
LogProbs(wt, x) == [c \in Labels |-> -(((wt + x + c) % n_classes) * Precision)]

\* Net.forward on a batch
Forward(wt, data) == [j \in 1..Len(data) |-> LogProbs(wt, data[j])]

RECURSIVE SumSeq(_)
SumSeq(s) == IF Len(s) = 0 THEN 0 ELSE s[1] + SumSeq(Tail(s))

\* per-sample negative log likelihood
NllPerSample(output, target) ==
  [j \in 1..Len(output) |-> -(output[j][target[j]])]

\* spacing of the float32 values around the magnitude of x >= 0
FloatUnit[x \in Nat] ==
  IF x < 2 ^ MantissaBits THEN 1 ELSE 2 * FloatUnit[x \div 2]

\* the float32 nearest to x >= 0, ties to the even significand
RoundFloat[x \in Nat] ==
  LET u == FloatUnit[x]
      q == x \div u
      r == x % u
  IN IF 2 * r > u \/ (2 * r = u /\ q % 2 = 1) THEN (q + 1) * u ELSE q * u

\* sum of a float32 tensor: every addition rounds its result
FloatSum[s \in Seq(Nat)] ==
  IF s = <<>> THEN 0
  ELSE RoundFloat[FloatSum[SubSeq(s, 1, Len(s) - 1)] + s[Len(s)]]

\* F.nll_loss(output, target, reduction='sum')
NllSum(output, target) == FloatSum[NllPerSample(output, target)]

\* F.nll_loss(output, target): mean over the batch
NllMean(output, target) == NllSum(output, target) \div Len(output)

\* output.argmax(dim=1) on one row: first index of the maximum
ArgMax(row) ==
  CHOOSE c \in DOMAIN row :
    /\ \A d \in DOMAIN row : row[d] <= row[c]
    /\ \A d \in DOMAIN row : row[d] = row[c] => c <= d

\* pred.eq(target.view_as(pred)).sum().item()
CountCorrect(output, target) ==
  Cardinality({j \in 1..Len(output) : ArgMax(output[j]) = target[j]})

\* gradient of the batch loss w.r.t. the parameters
GradOf(wt, bt) ==
  SumSeq([j \in 1..Len(bt.data) |-> (wt + bt.data[j] + bt.target[j]) % n_classes])

\* optim.SGD(lr, momentum=0.5): new momentum buffer
SgdBuf(o, g) == IF o.has_buf THEN (o.buf \div 2) + g ELSE g

\* optim.SGD: new parameters
SgdParam(wt, b) == (wt - b) % ParamSpace

\* ------------------------------------------------------------------ state
VARIABLES
  pc,              \* position in the notebook
  ret,             \* where the running function returns to
  retval,          \* value the last function call returned
  rnd,             \* torch / numpy / random generators and the cudnn flags
  train_loader, valid_loader,
  w,               \* parameters of Net
  mode,            \* "train" or "eval" (Module.training)
  grad,            \* .grad of the parameters: value and backward passes in it
  opt,             \* SGD momentum buffer
  grad_enabled,    \* FALSE inside torch.no_grad()
  epoch, train_losses, valid_losses, valid_x, epoch_losses, valid_loss,
  plots,           \* what plt.plot received, one entry per plt.show()
  log_interval,    \* parameter of train()
  loader,          \* which loader the loader parameter is bound to
  it,              \* batches the running iterator still has to yield
  batch_idx, batch, output, loss, losses,
  validation_loss, pred, correct,
  stdout,          \* lines printed so far
  counts,          \* calls of zero_grad / backward / step so far
  processed,       \* batches the running function has fed to the model
  calls,           \* train() and validate() calls made so far
  orders,          \* sampler orders drawn so far
  run, first,      \* run number and the results of the first run
  entry            \* what the running function found when it was called

env == <<rnd, train_loader, valid_loader>>
net == <<w, mode, grad, opt, grad_enabled>>
series == <<train_losses, valid_losses, valid_x, epoch_losses, valid_loss, plots>>
frame == <<log_interval, loader, it, batch_idx, batch, output, loss, losses,
           validation_loss, pred, correct>>
ghost == <<counts, processed, calls, orders>>
runs == <<run, first, entry>>

vars == <<pc, ret, retval, env, net, epoch, series, frame, stdout, ghost, runs>>

\* results of a run that has not happened
NoRun == [train_losses |-> <<>>, valid_losses |-> <<>>, valid_x |-> <<>>,
          orders |-> <<>>]

\* what a function can reach besides its arguments' own contents: the model,
\* its gradients, the optimizer, the generators, the lists of the epoch loop
\* and the output written so far
Globals ==
  [w |-> w, mode |-> mode, grad |-> grad, opt |-> opt,
   grad_enabled |-> grad_enabled, rnd |-> rnd,
   train_losses |-> train_losses, valid_losses |-> valid_losses,
   valid_x |-> valid_x, stdout |-> stdout]

LoaderOf(name) == IF name = "train_loader" THEN train_loader ELSE valid_loader

\* state of a fresh Python process, before any cell has run
Unseeded ==
  {[torch |-> a, np |-> b, py |-> c,
    cudnn_deterministic |-> FALSE, cudnn_benchmark |-> FALSE] :
     a \in 0..MaxEntropy, b \in 0..MaxEntropy, c \in 0..MaxEntropy}

Fresh ==
  /\ retval = PyNone
  /\ w = 0 /\ mode = "train" /\ grad = [passes |-> 0, val |-> 0]
  /\ opt = [has_buf |-> FALSE, buf |-> 0] /\ grad_enabled = TRUE
  /\ epoch = 0
  /\ train_losses = <<>> /\ valid_losses = <<>> /\ valid_x = <<>>
  /\ epoch_losses = PyNone /\ valid_loss = PyNone /\ plots = <<>>
  /\ loader = "train_loader" /\ it = <<>>
  /\ batch_idx = -1 /\ batch = NoBatch /\ output = <<>> /\ loss = 0
  /\ losses = <<>> /\ validation_loss = 0 /\ pred = <<>> /\ correct = 0
  /\ stdout = <<>>
  /\ counts = [zero_grad |-> 0, backward |-> 0, step |-> 0]
  /\ processed = <<>> /\ calls = <<>> /\ orders = <<>>

\* the notebook, run from its first cell on the two MNIST splits
Init ==
  /\ pc = "seed" /\ ret = "none"
  /\ rnd \in Unseeded
  /\ \E n \in 1..MaxTrain : \E lab \in TrainLabelings(n) :
       train_loader = DataLoader(MNIST(TRUE, n, lab), train_batch_size, TRUE)
  /\ \E n \in 1..MaxValid : \E lab \in ValidLabelings(n) :
       valid_loader = DataLoader(MNIST(FALSE, n, lab), valid_batch_size, TRUE)
  /\ log_interval = script_log_interval
  /\ Fresh
  /\ run = 1 /\ first = NoRun /\ entry = Globals

\* ------------------------------------------------------------- seeding cell
\* the seeding cell without torch.manual_seed(seed)
SeedCellNoTorch ==
  /\ pc = "seed"
  /\ rnd' = [torch |-> rnd.torch, np |-> seed % RngMod, py |-> seed % RngMod,
             cudnn_deterministic |-> TRUE, cudnn_benchmark |-> FALSE]
  /\ pc' = "build"
  /\ UNCHANGED <<ret, retval, train_loader, valid_loader, net, epoch, series,
                 frame, stdout, ghost, runs>>

\* seed = 20; torch.manual_seed(seed); cudnn flags; np.random.seed; random.seed
SeedCell ==
  /\ pc = "seed"
  /\ rnd' = [torch |-> seed % RngMod, np |-> seed % RngMod, py |-> seed % RngMod,
             cudnn_deterministic |-> TRUE, cudnn_benchmark |-> FALSE]
  /\ pc' = "build"
  /\ UNCHANGED <<ret, retval, train_loader, valid_loader, net, epoch, series,
                 frame, stdout, ghost, runs>>

\* Net().to(device), optim.SGD(...), the three empty lists
BuildModel ==
  /\ pc = "build"
  /\ w' = rnd.torch % ParamSpace
  /\ rnd' = [rnd EXCEPT !.torch = NextRng(rnd.torch)]
  /\ mode' = "train"
  /\ grad' = [passes |-> 0, val |-> 0]
  /\ opt' = [has_buf |-> FALSE, buf |-> 0]
  /\ train_losses' = <<>> /\ valid_losses' = <<>> /\ valid_x' = <<>>
  /\ pc' = "for_epoch"
  /\ UNCHANGED <<ret, retval, train_loader, valid_loader, grad_enabled, epoch,
                 epoch_losses, valid_loss, plots, frame, stdout, ghost, runs>>

\* a loop that runs one pass too many
ForEpochOffByOne ==
  /\ pc = "for_epoch"
  /\ IF epoch <= num_epochs
       THEN epoch' = epoch + 1 /\ pc' = "call_train"
       ELSE epoch' = epoch /\ pc' = "plot"
  /\ UNCHANGED <<ret, retval, env, net, series, frame, stdout, ghost, runs>>

\* for epoch in range(1, num_epochs + 1)
ForEpoch ==
  /\ pc = "for_epoch"
  /\ IF epoch < num_epochs
       THEN epoch' = epoch + 1 /\ pc' = "call_train"
       ELSE epoch' = epoch /\ pc' = "plot"
  /\ UNCHANGED <<ret, retval, env, net, series, frame, stdout, ghost, runs>>

\* the epoch loop handing the validation loader to train()
CallTrainOnValid ==
  /\ pc = "call_train"
  /\ log_interval' = script_log_interval
  /\ loader' = "valid_loader"
  /\ ret' = "ret_train"
  /\ calls' = Append(calls, [fn |-> "train", epoch |-> epoch,
                              returned |-> FALSE, result |-> PyNone])
  /\ entry' = Globals
  /\ pc' = "train_enter"
  /\ UNCHANGED <<retval, env, net, epoch, series, it, batch_idx, batch, output,
                 loss, losses, validation_loss, pred, correct, stdout, counts,
                 processed, orders, run, first>>

\* train(80, model, device, train_loader, optimizer, epoch)
CallTrain ==
  /\ pc = "call_train"
  /\ log_interval' = script_log_interval
  /\ loader' = "train_loader"
  /\ ret' = "ret_train"
  /\ calls' = Append(calls, [fn |-> "train", epoch |-> epoch,
                              returned |-> FALSE, result |-> PyNone])
  /\ entry' = Globals
  /\ pc' = "train_enter"
  /\ UNCHANGED <<retval, env, net, epoch, series, it, batch_idx, batch, output,
                 loss, losses, validation_loss, pred, correct, stdout, counts,
                 processed, orders, run, first>>

\* ------------------------------------------------------------------ train
\* train() appending to a list that outlives the call
TrainEnterKeepsLosses ==
  /\ pc = "train_enter"
  /\ losses' = losses
  /\ mode' = "train"
  /\ processed' = <<>>
  /\ pc' = "train_iter"
  /\ UNCHANGED <<ret, retval, env, w, grad, opt, grad_enabled, epoch, series,
                 log_interval, loader, it, batch_idx, batch, output, loss,
                 validation_loss, pred, correct, stdout, counts, calls, orders,
                 runs>>

\* losses = []; model.train()
TrainEnter ==
  /\ pc = "train_enter"
  /\ losses' = <<>>
  /\ mode' = "train"
  /\ processed' = <<>>
  /\ pc' = "train_iter"
  /\ UNCHANGED <<ret, retval, env, w, grad, opt, grad_enabled, epoch, series,
                 log_interval, loader, it, batch_idx, batch, output, loss,
                 validation_loss, pred, correct, stdout, counts, calls, orders,
                 runs>>

\* enumerate(train_loader): a fresh iterator, the sampler draws its order
TrainIter ==
  /\ pc = "train_iter"
  /\ LET ld == LoaderOf(loader)
         order == SamplerOrder(ld, rnd.torch)
     IN /\ it' = Batches(ld, order)
        /\ orders' = Append(orders, order)
        /\ rnd' = IF ld.shuffle THEN [rnd EXCEPT !.torch = NextRng(rnd.torch)]
                  ELSE rnd
  /\ batch_idx' = -1
  /\ pc' = "train_for"
  /\ UNCHANGED <<ret, retval, train_loader, valid_loader, net, epoch, series,
                 log_interval, loader, batch, output, loss, losses,
                 validation_loss, pred, correct, stdout, counts, processed,
                 calls, runs>>

\* for batch_idx, (data, target) in ...: next batch, or leave the loop
TrainFor ==
  /\ pc = "train_for"
  /\ IF it # <<>>
       THEN /\ batch' = Collate(LoaderOf(loader), Head(it))
            /\ it' = Tail(it)
            /\ batch_idx' = batch_idx + 1
            /\ pc' = "zero_grad"
       ELSE /\ UNCHANGED <<batch, it, batch_idx>>
            /\ pc' = "train_return"
  /\ UNCHANGED <<ret, retval, env, net, epoch, series, log_interval, loader,
                 output, loss, losses, validation_loss, pred, correct, stdout,
                 ghost, runs>>

\* a training step that never clears the gradients
ZeroGradSkipped ==
  /\ pc = "zero_grad"
  /\ counts' = [counts EXCEPT !.zero_grad = @ + 1]
  /\ pc' = "forward"
  /\ UNCHANGED <<ret, retval, env, net, epoch, series, frame, stdout,
                 processed, calls, orders, runs>>

\* optimizer.zero_grad()
ZeroGrad ==
  /\ pc = "zero_grad"
  /\ grad' = [passes |-> 0, val |-> 0]
  /\ counts' = [counts EXCEPT !.zero_grad = @ + 1]
  /\ pc' = "forward"
  /\ UNCHANGED <<ret, retval, env, w, mode, opt, grad_enabled, epoch, series,
                 frame, stdout, processed, calls, orders, runs>>

\* output = model(data)
TrainForward ==
  /\ pc = "forward"
  /\ output' = Forward(w, batch.data)
  /\ processed' = Append(processed, [idxs |-> batch.idxs, train |-> batch.train,
                                     w |-> w, mode |-> mode])
  /\ pc' = "loss"
  /\ UNCHANGED <<ret, retval, env, net, epoch, series, log_interval, loader, it,
                 batch_idx, batch, loss, losses, validation_loss, pred, correct,
                 stdout, counts, calls, orders, runs>>

\* loss = F.nll_loss(output, target)
TrainLoss ==
  /\ pc = "loss"
  /\ loss' = NllMean(output, batch.target)
  /\ pc' = "backward"
  /\ UNCHANGED <<ret, retval, env, net, epoch, series, log_interval, loader, it,
                 batch_idx, batch, output, losses, validation_loss, pred,
                 correct, stdout, ghost, runs>>

\* loss.backward(): the gradient is added to .grad
Backward ==
  /\ pc = "backward"
  /\ grad_enabled
  /\ grad' = [passes |-> grad.passes + 1, val |-> grad.val + GradOf(w, batch)]
  /\ counts' = [counts EXCEPT !.backward = @ + 1]
  /\ pc' = "step"
  /\ UNCHANGED <<ret, retval, env, w, mode, opt, grad_enabled, epoch, series,
                 frame, stdout, processed, calls, orders, runs>>

\* optimizer.step() placed under the logging condition
OptimizerStepOnLogOnly ==
  /\ pc = "step"
  /\ IF batch_idx % log_interval = 0
       THEN /\ IF grad.passes > 0
                 THEN /\ opt' = [has_buf |-> TRUE, buf |-> SgdBuf(opt, grad.val)]
                      /\ w' = SgdParam(w, SgdBuf(opt, grad.val))
                 ELSE UNCHANGED <<opt, w>>
            /\ counts' = [counts EXCEPT !.step = @ + 1]
       ELSE UNCHANGED <<opt, w, counts>>
  /\ pc' = "append"
  /\ UNCHANGED <<ret, retval, env, mode, grad, grad_enabled, epoch, series,
                 frame, stdout, processed, calls, orders, runs>>

\* optimizer.step(): SGD with momentum; a parameter without .grad is skipped
OptimizerStep ==
  /\ pc = "step"
  /\ IF grad.passes > 0
       THEN /\ opt' = [has_buf |-> TRUE, buf |-> SgdBuf(opt, grad.val)]
            /\ w' = SgdParam(w, SgdBuf(opt, grad.val))
       ELSE UNCHANGED <<opt, w>>
  /\ counts' = [counts EXCEPT !.step = @ + 1]
  /\ pc' = "append"
  /\ UNCHANGED <<ret, retval, env, mode, grad, grad_enabled, epoch, series,
                 frame, stdout, processed, calls, orders, runs>>

\* recording the loss of the batch under the parameters the step has produced
AppendLossAfterStep ==
  /\ pc = "append"
  /\ losses' = PyAppend(losses, PyFloat(NllMean(Forward(w, batch.data),
                                                batch.target)))
  /\ pc' = "log"
  /\ UNCHANGED <<ret, retval, env, net, epoch, series, log_interval, loader, it,
                 batch_idx, batch, output, loss, validation_loss, pred, correct,
                 stdout, ghost, runs>>

\* losses.append(loss.item())
AppendLoss ==
  /\ pc = "append"
  /\ losses' = PyAppend(losses, PyFloat(loss))
  /\ pc' = "log"
  /\ UNCHANGED <<ret, retval, env, net, epoch, series, log_interval, loader, it,
                 batch_idx, batch, output, loss, validation_loss, pred, correct,
                 stdout, ghost, runs>>

\* logging at the end of every interval instead of its start
ShouldLogOffByOne(idx, interval) == (idx + 1) % interval = 0

\* batch_idx % log_interval == 0
ShouldLog(idx, interval) == idx % interval = 0

\* the arguments of the 'Train Epoch: ...' format
TrainLine(ep, idx, bt, ld, ls) ==
  [kind |-> "train", epoch |-> ep,
   seen |-> idx * Len(bt.data),
   total |-> DatasetLen(ld),
   pct |-> (100 * Precision * idx) \div LoaderLen(ld),
   loss |-> ls]

\* if batch_idx % log_interval == 0: print(...)
LogProgress ==
  /\ pc = "log"
  /\ stdout' = IF ShouldLog(batch_idx, log_interval)
                 THEN Append(stdout, TrainLine(epoch, batch_idx, batch,
                                               LoaderOf(loader), loss))
                 ELSE stdout
  /\ pc' = "train_for"
  /\ UNCHANGED <<ret, retval, env, net, epoch, series, frame, ghost, runs>>

\* return losses
TrainReturn ==
  /\ pc = "train_return"
  /\ retval' = PyList(losses)
  /\ calls' = [calls EXCEPT ![Len(calls)] =
                 [@ EXCEPT !.returned = TRUE, !.result = PyList(losses)]]
  /\ pc' = ret
  /\ UNCHANGED <<ret, env, net, epoch, series, frame, stdout, counts,
                 processed, orders, runs>>

\* ------------------------------------------------------------- epoch loop
\* epoch_losses = train(...)
AssignEpochLosses ==
  /\ pc = "ret_train"
  /\ epoch_losses' = retval
  /\ pc' = "extend"
  /\ UNCHANGED <<ret, retval, env, net, epoch, train_losses, valid_losses,
                 valid_x, valid_loss, plots, frame, stdout, ghost, runs>>

\* train_losses.append(epoch_losses): one nested list per epoch
ExtendTrainLossesAsAppend ==
  /\ pc = "extend"
  /\ train_losses' = PyAppend(train_losses, epoch_losses)
  /\ pc' = "call_validate"
  /\ UNCHANGED <<ret, retval, env, net, epoch, valid_losses, valid_x,
                 epoch_losses, valid_loss, plots, frame, stdout, ghost, runs>>

\* train_losses.extend(epoch_losses)
ExtendTrainLosses ==
  /\ pc = "extend"
  /\ train_losses' = PyExtend(train_losses, epoch_losses)
  /\ pc' = "call_validate"
  /\ UNCHANGED <<ret, retval, env, net, epoch, valid_losses, valid_x,
                 epoch_losses, valid_loss, plots, frame, stdout, ghost, runs>>

\* validate(model, device, valid_loader)
CallValidate ==
  /\ pc = "call_validate"
  /\ loader' = "valid_loader"
  /\ ret' = "ret_validate"
  /\ calls' = Append(calls, [fn |-> "validate", epoch |-> epoch,
                              returned |-> FALSE, result |-> PyNone])
  /\ entry' = Globals
  /\ pc' = "val_enter"
  /\ UNCHANGED <<retval, env, net, epoch, series, log_interval, it, batch_idx,
                 batch, output, loss, losses, validation_loss, pred, correct,
                 stdout, counts, processed, orders, run, first>>

\* validate() without model.eval()
ValEnterNoEval ==
  /\ pc = "val_enter"
  /\ validation_loss' = 0
  /\ correct' = 0
  /\ processed' = <<>>
  /\ pc' = "val_no_grad"
  /\ UNCHANGED <<ret, retval, env, net, epoch, series, log_interval, loader,
                 it, batch_idx, batch, output, loss, losses, pred, stdout,
                 counts, calls, orders, runs>>

\* --------------------------------------------------------------- validate
\* model.eval(); validation_loss = 0; correct = 0
ValEnter ==
  /\ pc = "val_enter"
  /\ mode' = "eval"
  /\ validation_loss' = 0
  /\ correct' = 0
  /\ processed' = <<>>
  /\ pc' = "val_no_grad"
  /\ UNCHANGED <<ret, retval, env, w, grad, opt, grad_enabled, epoch, series,
                 log_interval, loader, it, batch_idx, batch, output, loss,
                 losses, pred, stdout, counts, calls, orders, runs>>

\* with torch.no_grad():
ValNoGrad ==
  /\ pc = "val_no_grad"
  /\ grad_enabled' = FALSE
  /\ pc' = "val_iter"
  /\ UNCHANGED <<ret, retval, env, w, mode, grad, opt, epoch, series, frame,
                 stdout, ghost, runs>>

\* iterating the validation loader without drawing from the torch generator
ValIterNoDraw ==
  /\ pc = "val_iter"
  /\ LET ld == LoaderOf(loader)
         order == SamplerOrder(ld, rnd.torch)
     IN /\ it' = Batches(ld, order)
        /\ orders' = Append(orders, order)
  /\ pc' = "val_for"
  /\ UNCHANGED <<ret, retval, env, net, epoch, series, log_interval, loader,
                 batch_idx, batch, output, loss, losses, validation_loss, pred,
                 correct, stdout, counts, processed, calls, runs>>

\* for data, target in loader: a fresh iterator, the sampler draws its order
ValIter ==
  /\ pc = "val_iter"
  /\ LET ld == LoaderOf(loader)
         order == SamplerOrder(ld, rnd.torch)
     IN /\ it' = Batches(ld, order)
        /\ orders' = Append(orders, order)
        /\ rnd' = IF ld.shuffle THEN [rnd EXCEPT !.torch = NextRng(rnd.torch)]
                  ELSE rnd
  /\ pc' = "val_for"
  /\ UNCHANGED <<ret, retval, train_loader, valid_loader, net, epoch, series,
                 log_interval, loader, batch_idx, batch, output, loss, losses,
                 validation_loss, pred, correct, stdout, counts, processed,
                 calls, runs>>

\* next batch, or leave the loop and the no_grad block
ValFor ==
  /\ pc = "val_for"
  /\ IF it # <<>>
       THEN /\ batch' = Collate(LoaderOf(loader), Head(it))
            /\ it' = Tail(it)
            /\ pc' = "val_forward"
            /\ UNCHANGED grad_enabled
       ELSE /\ UNCHANGED <<batch, it>>
            /\ grad_enabled' = TRUE
            /\ pc' = "val_divide"
  /\ UNCHANGED <<ret, retval, env, w, mode, grad, opt, epoch, series,
                 log_interval, loader, batch_idx, output, loss, losses,
                 validation_loss, pred, correct, stdout, ghost, runs>>

\* output = model(data)
ValForward ==
  /\ pc = "val_forward"
  /\ output' = Forward(w, batch.data)
  /\ processed' = Append(processed, [idxs |-> batch.idxs, train |-> batch.train,
                                     w |-> w, mode |-> mode])
  /\ pc' = "val_loss"
  /\ UNCHANGED <<ret, retval, env, net, epoch, series, log_interval, loader, it,
                 batch_idx, batch, loss, losses, validation_loss, pred, correct,
                 stdout, counts, calls, orders, runs>>

\* accumulating the batch means (the default reduction) instead of the sums
ValLossOfMeans ==
  /\ pc = "val_loss"
  /\ validation_loss' = validation_loss + NllMean(output, batch.target)
  /\ pc' = "val_pred"
  /\ UNCHANGED <<ret, retval, env, net, epoch, series, log_interval, loader, it,
                 batch_idx, batch, output, loss, losses, pred, correct, stdout,
                 ghost, runs>>

\* validation_loss += F.nll_loss(output, target, reduction='sum').item()
ValLoss ==
  /\ pc = "val_loss"
  /\ validation_loss' = validation_loss + NllSum(output, batch.target)
  /\ pc' = "val_pred"
  /\ UNCHANGED <<ret, retval, env, net, epoch, series, log_interval, loader, it,
                 batch_idx, batch, output, loss, losses, pred, correct, stdout,
                 ghost, runs>>

\* pred = output.argmax(dim=1, keepdim=True)
ValPred ==
  /\ pc = "val_pred"
  /\ pred' = [j \in 1..Len(output) |-> ArgMax(output[j])]
  /\ pc' = "val_correct"
  /\ UNCHANGED <<ret, retval, env, net, epoch, series, log_interval, loader, it,
                 batch_idx, batch, output, loss, losses, validation_loss,
                 correct, stdout, ghost, runs>>

\* pred.eq(target.view_as(pred)).sum().item()
EqCount(p, target) == Cardinality({j \in 1..Len(p) : p[j] = target[j]})

\* correct = ... instead of correct += ...
ValCorrectOverwrite ==
  /\ pc = "val_correct"
  /\ correct' = EqCount(pred, batch.target)
  /\ pc' = "val_for"
  /\ UNCHANGED <<ret, retval, env, net, epoch, series, log_interval, loader, it,
                 batch_idx, batch, output, loss, losses, validation_loss, pred,
                 stdout, ghost, runs>>

\* correct += pred.eq(target.view_as(pred)).sum().item()
ValCorrect ==
  /\ pc = "val_correct"
  /\ correct' = correct + EqCount(pred, batch.target)
  /\ pc' = "val_for"
  /\ UNCHANGED <<ret, retval, env, net, epoch, series, log_interval, loader, it,
                 batch_idx, batch, output, loss, losses, validation_loss, pred,
                 stdout, ghost, runs>>

\* validation_loss /= len(loader.dataset)
ValDivide ==
  /\ pc = "val_divide"
  /\ validation_loss' = validation_loss \div DatasetLen(LoaderOf(loader))
  /\ pc' = "val_print"
  /\ UNCHANGED <<ret, retval, env, net, epoch, series, log_interval, loader, it,
                 batch_idx, batch, output, loss, losses, pred, correct, stdout,
                 ghost, runs>>

\* the arguments of the 'Validation set: ...' format
ValidLine(vl, cr, ld) ==
  [kind |-> "valid", loss |-> vl, correct |-> cr, total |-> DatasetLen(ld),
   pct |-> (100 * Precision * cr) \div DatasetLen(ld)]

\* print('\nValidation set: ...')
ValPrint ==
  /\ pc = "val_print"
  /\ stdout' = Append(stdout, ValidLine(validation_loss, correct, LoaderOf(loader)))
  /\ pc' = "val_return"
  /\ UNCHANGED <<ret, retval, env, net, epoch, series, frame, ghost, runs>>

\* return validation_loss
ValReturn ==
  /\ pc = "val_return"
  /\ retval' = PyFloat(validation_loss)
  /\ calls' = [calls EXCEPT ![Len(calls)] =
                 [@ EXCEPT !.returned = TRUE, !.result = PyFloat(validation_loss)]]
  /\ pc' = ret
  /\ UNCHANGED <<ret, env, net, epoch, series, frame, stdout, counts,
                 processed, orders, runs>>

\* ------------------------------------------------- epoch loop, second half
\* valid_loss = validate(...)
AssignValidLoss ==
  /\ pc = "ret_validate"
  /\ valid_loss' = retval
  /\ pc' = "append_valid"
  /\ UNCHANGED <<ret, retval, env, net, epoch, train_losses, valid_losses,
                 valid_x, epoch_losses, plots, frame, stdout, ghost, runs>>

\* valid_losses.append([valid_loss])
AppendValidLoss ==
  /\ pc = "append_valid"
  /\ valid_losses' = PyAppend(valid_losses, PyList(<<valid_loss>>))
  /\ pc' = "append_x"
  /\ UNCHANGED <<ret, retval, env, net, epoch, train_losses, valid_x,
                 epoch_losses, valid_loss, plots, frame, stdout, ghost, runs>>

\* the plotting statements indented into the loop body
AppendValidXThenPlot ==
  /\ pc = "append_x"
  /\ valid_x' = PyAppend(valid_x, PyInt(Len(train_losses) - 1))
  /\ pc' = "plot"
  /\ UNCHANGED <<ret, retval, env, net, epoch, train_losses, valid_losses,
                 epoch_losses, valid_loss, plots, frame, stdout, ghost, runs>>

\* valid_x.append(len(train_losses) - 1)
AppendValidX ==
  /\ pc = "append_x"
  /\ valid_x' = PyAppend(valid_x, PyInt(Len(train_losses) - 1))
  /\ pc' = "for_epoch"
  /\ UNCHANGED <<ret, retval, env, net, epoch, train_losses, valid_losses,
                 epoch_losses, valid_loss, plots, frame, stdout, ghost, runs>>

\* plt.gcf().clear(); plt.plot(...); plt.plot(...); plt.show()
Plot ==
  /\ pc = "plot"
  /\ plots' = Append(plots, [train |-> train_losses,
                             x |-> valid_x, valid |-> valid_losses])
  /\ pc' = "done"
  /\ UNCHANGED <<ret, retval, env, net, epoch, train_losses, valid_losses,
                 valid_x, epoch_losses, valid_loss, frame, stdout, ghost, runs>>

TrainBody ==
  \/ TrainEnter \/ TrainIter \/ TrainFor \/ ZeroGrad \/ TrainForward
  \/ TrainLoss \/ Backward \/ OptimizerStep \/ AppendLoss \/ LogProgress
  \/ TrainReturn

ValidateBody ==
  \/ ValEnter \/ ValNoGrad \/ ValIter \/ ValFor \/ ValForward \/ ValLoss
  \/ ValPred \/ ValCorrect \/ ValDivide \/ ValPrint \/ ValReturn

Script ==
  \/ SeedCell \/ BuildModel \/ ForEpoch \/ CallTrain \/ AssignEpochLosses
  \/ ExtendTrainLosses \/ CallValidate \/ AssignValidLoss \/ AppendValidLoss
  \/ AppendValidX \/ Plot

Next == Script \/ TrainBody \/ ValidateBody

Spec == Init /\ [][Next]_vars

\* ------------------------------------------------- the notebook, run twice
\* Kernel restart and "run all": a new process on the same data
Restart ==
  /\ pc = "done"
  /\ run = 1
  /\ first' = [train_losses |-> train_losses, valid_losses |-> valid_losses,
               valid_x |-> valid_x, orders |-> orders]
  /\ run' = 2
  /\ pc' = "seed" /\ ret' = "none"
  /\ rnd' \in Unseeded
  /\ log_interval' = script_log_interval
  /\ retval' = PyNone
  /\ w' = 0 /\ mode' = "train" /\ grad' = [passes |-> 0, val |-> 0]
  /\ opt' = [has_buf |-> FALSE, buf |-> 0] /\ grad_enabled' = TRUE
  /\ epoch' = 0
  /\ train_losses' = <<>> /\ valid_losses' = <<>> /\ valid_x' = <<>>
  /\ epoch_losses' = PyNone /\ valid_loss' = PyNone /\ plots' = <<>>
  /\ loader' = "train_loader" /\ it' = <<>>
  /\ batch_idx' = -1 /\ batch' = NoBatch /\ output' = <<>> /\ loss' = 0
  /\ losses' = <<>> /\ validation_loss' = 0 /\ pred' = <<>> /\ correct' = 0
  /\ stdout' = <<>>
  /\ counts' = [zero_grad |-> 0, backward |-> 0, step |-> 0]
  /\ processed' = <<>> /\ calls' = <<>> /\ orders' = <<>>
  /\ UNCHANGED <<train_loader, valid_loader>>
  /\ entry' = Globals'

NextRerun == Next \/ Restart

\* the cells run one after the other and each statement completes
FairSpec == Spec /\ WF_vars(Next)

SpecRerun == Init /\ [][NextRerun]_vars

\* --------------------------------------------------------- train() alone
\* one call of train() on any loader, any parameters and any log_interval
InitTrain ==
  /\ pc = "call" /\ ret = "none"
  /\ \E a \in 0..MaxEntropy :
       rnd = [torch |-> a, np |-> 0, py |-> 0,
              cudnn_deterministic |-> TRUE, cudnn_benchmark |-> FALSE]
  /\ \E n \in 0..MaxLoader : \E lab \in TrainLabelings(n) : \E bs \in 1..MaxBatch :
       train_loader = DataLoader(MNIST(TRUE, n, lab), bs, TRUE)
  /\ valid_loader = DataLoader(MNIST(FALSE, 1, <<0>>), valid_batch_size, TRUE)
  /\ log_interval = 1
  /\ Fresh
  /\ run = 1 /\ first = NoRun /\ entry = Globals

CallTrainAlone ==
  /\ pc = "call"
  /\ \E N \in 1..MaxLogInterval : log_interval' = N
  /\ \E wt \in 0..(ParamSpace - 1) : w' = wt
  /\ epoch' = 1
  /\ loader' = "train_loader"
  /\ ret' = "done"
  /\ calls' = Append(calls, [fn |-> "train", epoch |-> 1,
                              returned |-> FALSE, result |-> PyNone])
  /\ entry' = Globals
  /\ pc' = "train_enter"
  /\ UNCHANGED <<retval, env, mode, grad, opt, grad_enabled, series, it,
                 batch_idx, batch, output, loss, losses, validation_loss, pred,
                 correct, stdout, counts, processed, orders, run, first>>

NextTrain == CallTrainAlone \/ TrainBody

SpecTrain == InitTrain /\ [][NextTrain]_vars

\* ------------------------------------------------------ validate() alone
\* one call of validate() on any loader over a dataset: any batch size, any
\* order drawn by its shuffling sampler, any parameters
InitValidate ==
  /\ pc = "call" /\ ret = "none"
  /\ \E a \in 0..(2 * MaxBatch - 1) :
       rnd = [torch |-> a, np |-> 0, py |-> 0,
              cudnn_deterministic |-> TRUE, cudnn_benchmark |-> FALSE]
  /\ train_loader = DataLoader(MNIST(TRUE, 1, <<0>>), train_batch_size, TRUE)
  /\ \E n \in 1..MaxLoader : \E lab \in ValidLabelings(n) : \E bs \in 1..MaxBatch :
       valid_loader = DataLoader(MNIST(FALSE, n, lab), bs, TRUE)
  /\ log_interval = 1
  /\ Fresh
  /\ run = 1 /\ first = NoRun /\ entry = Globals

CallValidateAlone ==
  /\ pc = "call"
  /\ \E wt \in 0..(ParamSpace - 1) : w' = wt
  /\ epoch' = 1
  /\ loader' = "valid_loader"
  /\ ret' = "done"
  /\ calls' = Append(calls, [fn |-> "validate", epoch |-> 1,
                              returned |-> FALSE, result |-> PyNone])
  /\ entry' = Globals
  /\ pc' = "val_enter"
  /\ UNCHANGED <<retval, env, mode, grad, opt, grad_enabled, series,
                 log_interval, it, batch_idx, batch, output, loss, losses,
                 validation_loss, pred, correct, stdout, counts, processed,
                 orders, run, first>>

NextValidate == CallValidateAlone \/ ValidateBody

SpecValidate == InitValidate /\ [][NextValidate]_vars

\* ================================================================ claims
TrainPcs == {"train_enter", "train_iter", "train_for", "zero_grad", "forward",
             "loss", "backward", "step", "append", "log", "train_return"}

ValPcs == {"val_enter", "val_no_grad", "val_iter", "val_for", "val_forward",
           "val_loss", "val_pred", "val_correct", "val_divide", "val_print",
           "val_return"}

IsTrainCall(c) == c.fn = "train"
IsValidateCall(c) == c.fn = "validate"
IsTrainLine(l) == l.kind = "train"
IsValidLine(l) == l.kind = "valid"

\* number of batches of the training loader
B == LoaderLen(train_loader)

CeilDiv(a, b) == (a + b - 1) \div b

\* C1: the validation set never updates the parameters.  Every zero_grad,
\* backward and optimizer.step happens inside train() on a batch of the
\* train=True split handed out by train_loader; while validate() runs, and
\* on any batch of the train=False split, the parameters, the gradient, the
\* momentum buffer and the three call counters do not change.
C1_ValidationNeverUpdates ==
  [][ /\ counts' # counts =>
           /\ pc \in TrainPcs
           /\ loader = "train_loader"
           /\ batch.train
           /\ LoaderOf(loader).dataset.train
      /\ counts'.step # counts.step => pc = "step"
      /\ (w' # w /\ pc # "build") => (pc = "step" /\ batch.train)
      /\ pc \in ValPcs => UNCHANGED <<w, grad, opt, counts>>
      /\ (pc \in ValPcs /\ batch' # batch) => ~batch'.train
      /\ (pc \in TrainPcs /\ batch' # batch) => batch'.train
    ]_vars

\* validate() is running on a validation batch after parameters were updated
C1_Witness ==
  /\ pc = "val_loss" /\ ~batch.train /\ counts.step > 0 /\ epoch >= 2

\* C2: one optimizer.step per training batch: inside the loop of train() the
\* number of steps so far is (epochs before this one) * B + batches done, and
\* after k completed epochs it is exactly k * B.
C2_OneStepPerBatch ==
  /\ pc = "for_epoch" => counts.step = epoch * B
  /\ pc = "train_for" => counts.step = (epoch - 1) * B + batch_idx + 1
  /\ pc = "step" => counts.step = (epoch - 1) * B + batch_idx
  /\ pc = "done" => counts.step = num_epochs * B

C2_Witness ==
  /\ pc = "for_epoch" /\ epoch = 2 /\ B = 3 /\ counts.step = 6

TrainCalls == SelectSeq(calls, IsTrainCall)
ValidateCalls == SelectSeq(calls, IsValidateCall)

\* C3: the script terminates, and when it has, train() was called exactly
\* num_epochs = 10 times with epoch = 1, 2, ..., 10 in this order, validate()
\* exactly 10 times, and plt.show() exactly once; no more calls or plots ever
\* happen on the way.
C3_FixedNumberOfPasses ==
  /\ <>(pc = "done")
  /\ [](pc = "done" =>
          /\ Len(TrainCalls) = 10
          /\ \A i \in 1..10 : TrainCalls[i].epoch = i /\ TrainCalls[i].returned
          /\ Len(ValidateCalls) = 10
          /\ \A i \in 1..10 : ValidateCalls[i].returned
          /\ Len(plots) = 1)
  /\ [](Len(TrainCalls) <= 10 /\ Len(ValidateCalls) <= 10 /\ Len(plots) <= 1)

C3_Witness ==
  /\ pc = "done" /\ Len(calls) = 20 /\ Len(plots) = 1 /\ epoch = 10

\* number of 'Validation set' lines printed before line i
ValidLinesBefore(i) ==
  Cardinality({j \in 1..(i - 1) : stdout[j].kind = "valid"})

\* C4: train, then validate, epoch after epoch, then the plot.  The calls
\* alternate train(e), validate(e) for e = 1, 2, ...; a call is made only
\* when the call before it has returned; when validate() starts, train() has
\* consumed its loader and its losses are recorded; every 'Train Epoch' line
\* carries the epoch whose 'Validation set' line comes next, so the lines of
\* an epoch stand together and are followed by exactly one validation line;
\* nothing is plotted before the validate() of the last epoch has returned.
C4_LinearOrder ==
  /\ \A i \in 1..Len(calls) :
       /\ calls[i].fn = (IF i % 2 = 1 THEN "train" ELSE "validate")
       /\ calls[i].epoch = (i + 1) \div 2
       /\ i < Len(calls) => calls[i].returned
  /\ pc \in TrainPcs => Len(calls) = 2 * epoch - 1
  /\ pc \in ValPcs =>
       /\ Len(calls) = 2 * epoch
       /\ Len(train_losses) = epoch * B
  /\ pc = "val_enter" => it = <<>>
  /\ \A i \in 1..Len(stdout) :
       stdout[i].kind = "train" => stdout[i].epoch = ValidLinesBefore(i) + 1
  /\ \A i \in 1..(Len(stdout) - 1) :
       (stdout[i].kind = "train" /\ stdout[i + 1].kind = "train")
          => stdout[i].pct < stdout[i + 1].pct
  /\ pc = "for_epoch" => Len(SelectSeq(stdout, IsValidLine)) = epoch
  /\ pc \in TrainPcs => Len(SelectSeq(stdout, IsValidLine)) = epoch - 1
  /\ (pc = "done" \/ Len(plots) > 0) =>
       /\ Len(calls) = 2 * num_epochs
       /\ calls[Len(calls)].returned
       /\ Len(SelectSeq(stdout, IsValidLine)) = num_epochs
       /\ stdout[Len(stdout)].kind = "valid"

\* finished, with two progress lines and one validation line in every epoch
C4_Witness ==
  /\ pc = "done" /\ B = 3
  /\ Len(stdout) = 3 * num_epochs
  /\ stdout[1].kind = "train" /\ stdout[2].kind = "train"
  /\ stdout[3].kind = "valid" /\ stdout[4].epoch = 2

\* the loss train() computes on a batch of indices with parameters wt
BatchLoss(ld, idxs, wt) ==
  LET bt == Collate(ld, idxs)
  IN NllMean(Forward(wt, bt.data), bt.target)

\* C5: one call of train() is one pass over its loader.  When train()
\* returns, the batches it fed to the model are exactly the batches of the
\* iterator it created, once each and in that order, and the list it returns
\* holds one loss per batch, the i-th being the loss of the i-th batch; the
\* list starts empty at every call.
C5_OnePassPerCall ==
  /\ pc = "train_iter" => losses = <<>>
  /\ pc \in {"train_for", "train_return"} =>
       /\ Len(losses) = batch_idx + 1
       /\ Len(processed) = batch_idx + 1
  /\ pc = "train_return" =>
       LET ld == LoaderOf(loader)
           yielded == Batches(ld, orders[Len(orders)])
       IN /\ Len(losses) = LoaderLen(ld)
          /\ Len(processed) = LoaderLen(ld)
          /\ \A i \in 1..Len(processed) : processed[i].idxs = yielded[i]
          /\ \A i \in 1..Len(losses) :
               losses[i] = PyFloat(BatchLoss(ld, yielded[i], processed[i].w))
          /\ \A n \in 1..DatasetLen(ld) :
               Cardinality({<<i, j>> \in (1..Len(processed)) \X (1..ld.batch_size) :
                              j <= Len(processed[i].idxs)
                              /\ processed[i].idxs[j] = n}) = 1

\* a later epoch returns a list of three losses, not all equal
C5_Witness ==
  /\ pc = "train_return" /\ epoch >= 2 /\ Len(losses) = 3
  /\ losses[1] # losses[2]

\* the lists train() returned so far, joined in call order
RECURSIVE Concat(_)
Concat(ss) == IF Len(ss) = 0 THEN <<>> ELSE Head(ss).items \o Concat(Tail(ss))

ReturnedTrain == SelectSeq(calls, LAMBDA c : c.fn = "train" /\ c.returned)
ReturnedValidate == SelectSeq(calls, LAMBDA c : c.fn = "validate" /\ c.returned)

\* C6 (as claimed): after k iterations of the epoch loop train_losses has
\* k * B entries, the lists returned by train() joined in epoch order, and
\* valid_losses has k entries, the k-th being the value validate() returned
\* in epoch k.
C6_SeriesAsClaimed ==
  pc = "for_epoch" =>
    /\ Len(train_losses) = epoch * B
    /\ train_losses = Concat([i \in 1..Len(ReturnedTrain) |-> ReturnedTrain[i].result])
    /\ Len(valid_losses) = epoch
    /\ \A k \in 1..Len(valid_losses) : valid_losses[k] = ReturnedValidate[k].result

IsScalar(v) == v.type \in {"float", "int"}

\* C7 (as claimed): every element of train_losses and of valid_losses is a
\* single scalar number, not a list.
C7_ScalarSeries ==
  /\ \A i \in 1..Len(train_losses) : IsScalar(train_losses[i])
  /\ \A i \in 1..Len(valid_losses) : IsScalar(valid_losses[i])

\* C8: train() prints a progress line for batch i exactly when
\* i mod log_interval = 0.  After batch i the number of lines printed is
\* ceil((i + 1) / N), the j-th line is the one of batch (j - 1) * N (batch 0
\* first), a whole pass prints ceil(B / N) lines, and 469 batches with
\* N = 80 give 6 lines.
C8_LogEveryN ==
  LET ld == LoaderOf(loader)
      N == log_interval
  IN /\ pc \in {"train_for", "train_return", "done"} =>
          /\ Len(stdout) = CeilDiv(batch_idx + 1, N)
          /\ \A j \in 1..Len(stdout) :
               /\ stdout[j].kind = "train"
               /\ stdout[j].pct = (100 * Precision * ((j - 1) * N)) \div LoaderLen(ld)
     /\ pc \in {"train_return", "done"} =>
          /\ Len(stdout) = CeilDiv(LoaderLen(ld), N)
          /\ LoaderLen(ld) >= 1 => (stdout[1].seen = 0 /\ stdout[1].pct = 0)
     /\ Cardinality({i \in 0..468 : ShouldLog(i, 80)}) = 6

\* four batches with log_interval 3: lines for batches 0 and 3 only
C8_Witness ==
  /\ pc = "done" /\ log_interval = 3 /\ LoaderLen(train_loader) = 4
  /\ Len(stdout) = 2 /\ stdout[2].pct = 75 * Precision

\* samples of the loader the parameters wt classify correctly
CorrectSamples(ld, wt) ==
  {i \in 1..DatasetLen(ld) :
     ArgMax(LogProbs(wt, ld.dataset.samples[i].x)) = ld.dataset.samples[i].y}

\* indices of the samples validate() has fed to the model so far
SeenIdxs ==
  UNION {{processed[i].idxs[j] : j \in 1..Len(processed[i].idxs)} :
           i \in 1..Len(processed)}

\* C9: the correct count of validate().  It stays within 0..len(dataset);
\* between batches it is the number of correctly classified samples among
\* those seen, every sample being seen at most once; the count printed is
\* the number of samples of the whole loader whose argmax equals the label.
C9_CorrectCount ==
  LET ld == LoaderOf(loader)
  IN /\ pc \in ValPcs => (0 <= correct /\ correct <= DatasetLen(ld))
     /\ pc = "val_for" =>
          /\ correct = Cardinality(SeenIdxs \cap CorrectSamples(ld, w))
          /\ Cardinality(SeenIdxs) = SumSeq([i \in 1..Len(processed) |->
                                              Len(processed[i].idxs)])
     /\ pc = "val_return" =>
          /\ stdout[Len(stdout)].kind = "valid"
          /\ stdout[Len(stdout)].correct = Cardinality(CorrectSamples(ld, w))
          /\ stdout[Len(stdout)].total = DatasetLen(ld)

\* two batches validated, some samples right and some wrong
C9_Witness ==
  /\ pc = "val_return" /\ Len(processed) = 2
  /\ correct = 2 /\ DatasetLen(valid_loader) = 3 /\ epoch >= 2

\* p is a prefix of q
IsPrefix(p, q) == Len(p) <= Len(q) /\ SubSeq(q, 1, Len(p)) = p

\* C10: two runs of the whole notebook on the same data give the same
\* results.  All through the second run the sampler orders and the three
\* recorded lists repeat those of the first run, and at its end they are
\* equal to them.
C10_Deterministic ==
  run = 2 =>
    /\ IsPrefix(orders, first.orders)
    /\ pc # "build" =>
         /\ IsPrefix(train_losses, first.train_losses)
         /\ IsPrefix(valid_losses, first.valid_losses)
         /\ IsPrefix(valid_x, first.valid_x)
    /\ pc = "done" =>
         /\ orders = first.orders
         /\ train_losses = first.train_losses
         /\ valid_losses = first.valid_losses
         /\ valid_x = first.valid_x

\* the second run has finished, after starting from other generator states
C10_Witness ==
  /\ run = 2 /\ pc = "done" /\ B = 3
  /\ Len(first.train_losses) = num_epochs * 3
  /\ Len(first.orders) = 2 * num_epochs
  /\ first.orders[1] # first.orders[3]

\* the call of validate() that is running or has just returned
LastCall == calls[Len(calls)]

\* C11 as stated: when validate() has returned, everything it could reach is
\* as it was when it was called, except the model's mode, which is "eval"
\* (the lines it printed are output, not state, and are left out)
C11_OnlyModeChanges ==
  pc = "ret_validate" =>
    [Globals EXCEPT !.stdout = <<>>] =
      [entry EXCEPT !.mode = "eval", !.stdout = <<>>]

\* C11: validate() leaves the parameters, their gradients, the momentum
\* buffer and the three lists of the epoch loop as they were at the call, at
\* every one of its steps and at its return; at its return the mode is
\* "eval", gradient recording is enabled again, one line has been printed,
\* and the torch generator has advanced by the one draw of valid_loader's
\* shuffling sampler: that draw is the one other change it leaves behind
C11_ValidateFrame ==
  /\ pc \in ValPcs \cup {"ret_validate"} =>
       /\ LastCall.fn = "validate"
       /\ w = entry.w
       /\ grad = entry.grad
       /\ opt = entry.opt
       /\ train_losses = entry.train_losses
       /\ valid_losses = entry.valid_losses
       /\ valid_x = entry.valid_x
  /\ pc = "ret_validate" =>
       /\ mode = "eval"
       /\ grad_enabled = entry.grad_enabled
       /\ rnd = [entry.rnd EXCEPT !.torch = NextRng(@)]
       /\ Len(stdout) = Len(entry.stdout) + 1
       /\ SubSeq(stdout, 1, Len(stdout) - 1) = entry.stdout
       /\ IsValidLine(stdout[Len(stdout)])

\* validate() has returned in a later epoch: it was entered in training mode
\* with a momentum buffer, a gradient and non-empty lists in place
C11_Witness ==
  /\ pc = "ret_validate" /\ epoch >= 2
  /\ entry.mode = "train" /\ mode = "eval"
  /\ opt.has_buf /\ grad.passes = 1 /\ grad.val # 0
  /\ valid_x # <<>> /\ Len(train_losses) >= 2
  /\ rnd # entry.rnd

\* C12: from the moment train() has called model.train() the model is in
\* training mode, at each of its forward passes and optimizer steps, in every
\* epoch; from the moment validate() has called model.eval() the model is in
\* evaluation mode at each of its forward passes.  The mode a forward pass ran
\* in is recorded with the batch it processed.
C12_ModesNeverLeak ==
  /\ pc \in TrainPcs \ {"train_enter"} =>
       /\ mode = "train"
       /\ \A i \in 1..Len(processed) : processed[i].mode = "train"
  /\ pc \in ValPcs \ {"val_enter"} =>
       /\ mode = "eval"
       /\ \A i \in 1..Len(processed) : processed[i].mode = "eval"

\* an optimizer step of a later epoch: train() was entered in the evaluation
\* mode that the preceding validate() left behind
C12_Witness ==
  /\ pc = "step" /\ epoch >= 2
  /\ LastCall.fn = "train" /\ entry.mode = "eval"
  /\ Len(processed) >= 2 /\ mode = "train"

\* C13: within each training batch the calls come in the order zero_grad,
\* forward, loss, backward, step: zero_grad is one call ahead of backward and
\* step until backward runs, the forward pass and the loss of the batch are
\* there when backward runs, and step follows backward.  The gradient that a
\* step consumes is the result of exactly one backward pass, the one of the
\* current batch, in every epoch.
C13_OneBackwardPerStep ==
  /\ pc = "zero_grad" =>
       counts.zero_grad = counts.step /\ counts.backward = counts.step
  /\ pc \in {"forward", "loss", "backward"} =>
       counts.zero_grad = counts.step + 1 /\ counts.backward = counts.step
  /\ pc = "forward" => Len(processed) = batch_idx /\ grad.passes = 0
  /\ pc \in {"loss", "backward"} =>
       /\ Len(processed) = batch_idx + 1
       /\ processed[Len(processed)].idxs = batch.idxs
       /\ output = Forward(w, batch.data)
       /\ grad.passes = 0
  /\ pc = "backward" => loss = NllMean(output, batch.target)
  /\ pc = "step" =>
       /\ counts.zero_grad = counts.step + 1
       /\ counts.backward = counts.step + 1
       /\ grad.passes = 1
       /\ grad.val = GradOf(w, batch)
  /\ pc \notin {"zero_grad", "forward", "loss", "backward", "step"} =>
       counts.zero_grad = counts.step /\ counts.backward = counts.step

\* the step of the first batch of a later epoch, taken after earlier batches
\* had left a gradient and a momentum buffer behind
C13_Witness ==
  /\ pc = "step" /\ epoch >= 2 /\ batch_idx = 0
  /\ counts.backward >= 3 /\ opt.has_buf /\ opt.buf # 0
  /\ grad.passes = 1 /\ grad.val # 0

\* C14: whenever k epochs are complete (the loop is at its head, or over),
\* valid_x and valid_losses both have length k; the j-th entry of valid_x is
\* the integer j * B - 1, B >= 1 being the number of batches of an epoch; the
\* entries increase strictly; each is an index of an element of train_losses
C14_ValidXAligned ==
  /\ B >= 1
  /\ pc \in {"for_epoch", "plot", "done"} =>
       /\ Len(valid_x) = epoch
       /\ Len(valid_losses) = epoch
       /\ Len(train_losses) = epoch * B
  /\ \A j \in 1..Len(valid_x) :
       /\ valid_x[j] = PyInt(j * B - 1)
       /\ 0 <= valid_x[j].val /\ valid_x[j].val < Len(train_losses)
       /\ j > 1 => valid_x[j - 1].val < valid_x[j].val

\* three epochs of three batches are complete
C14_Witness ==
  /\ pc = "for_epoch" /\ epoch = 3 /\ B = 3
  /\ Len(valid_x) = 3 /\ valid_x[3] = PyInt(8) /\ Len(train_losses) = 9

\* C16 (as claimed): in every progress line of train() the sample count
\* before the '/' is the number of samples in the batches that precede the
\* reported batch in this epoch, and it is at most len(train_loader.dataset).
\* The j-th line of a call reports batch (j - 1) * log_interval.
C16_SamplesBeforeBatch ==
  pc \in {"train_for", "train_return", "done"} =>
    \A j \in 1..Len(stdout) :
      LET idx == (j - 1) * log_interval
      IN /\ stdout[j].seen = SumSeq([i \in 1..idx |-> Len(processed[i].idxs)])
         /\ stdout[j].seen <= stdout[j].total

\* C17: the loss recorded for a batch is the loss of that batch under the
\* parameters of its forward pass, which are the parameters before its
\* optimizer step.  Between batches and at the return the list holds one
\* entry per batch processed, printed or not; the i-th entry is that loss; and
\* the j-th progress line, which reports batch (j - 1) * log_interval, shows
\* the value of the list entry of that batch.
C17_RecordedLoss ==
  LET ld == LoaderOf(loader)
      N == log_interval
  IN /\ pc \in {"loss", "backward", "step"} => processed[Len(processed)].w = w
     /\ pc \in {"step", "append"} =>
          loss = BatchLoss(ld, batch.idxs, processed[Len(processed)].w)
     /\ pc \in {"train_for", "train_return", "done"} =>
          /\ Len(losses) = batch_idx + 1
          /\ Len(processed) = batch_idx + 1
          /\ \A i \in 1..Len(losses) :
               losses[i] = PyFloat(BatchLoss(ld, processed[i].idxs, processed[i].w))
          /\ \A j \in 1..Len(stdout) :
               /\ (j - 1) * N + 1 <= Len(losses)
               /\ PyFloat(stdout[j].loss) = losses[(j - 1) * N + 1]

\* three batches with log_interval 2: the second loss is recorded without a
\* line, the steps changed the parameters, and the last batch has another
\* loss under the parameters its step produced
C17_Witness ==
  /\ pc = "done" /\ log_interval = 2
  /\ Len(losses) = 3 /\ Len(stdout) = 2
  /\ processed[1].w # processed[2].w /\ processed[3].w # w
  /\ BatchLoss(LoaderOf(loader), processed[3].idxs, w) # losses[3].val

\* per-sample losses of the whole dataset of a loader under parameters wt
SampleLosses(ld, wt) ==
  [i \in 1..DatasetLen(ld) |->
     -(LogProbs(wt, ld.dataset.samples[i].x)[ld.dataset.samples[i].y])]

\* their sum in exact arithmetic
ExactLossSum(ld, wt) == SumSeq(SampleLosses(ld, wt))

\* the float32 sums of the batches validate() has fed to the model
BatchSums(ld) ==
  [i \in 1..Len(processed) |->
     LET bt == Collate(ld, processed[i].idxs)
     IN NllSum(Forward(processed[i].w, bt.data), bt.target)]

Abs(x) == IF x < 0 THEN -x ELSE x

\* C15 (as claimed): whatever the batch size and the order drawn, validate()
\* returns the sum of the per-sample losses of the dataset divided by
\* len(loader.dataset), and prints the number of correct samples of the
\* dataset; neither depends on the batching
C15_BatchingIndependent ==
  LET ld == LoaderOf(loader)
  IN pc = "done" =>
       /\ retval = PyFloat(ExactLossSum(ld, w) \div DatasetLen(ld))
       /\ correct = Cardinality(CorrectSamples(ld, w))

\* largest float32 spacing met while summing the batches
MaxBatchUnit(ld) ==
  LET sums == BatchSums(ld)
      top == CHOOSE i \in 1..Len(sums) : \A j \in 1..Len(sums) : sums[j] <= sums[i]
  IN FloatUnit[sums[top]]

\* C15: for fixed parameters, whatever the batch size and the order drawn,
\* the correct count validate() returns is the number of samples of the
\* dataset whose argmax equals the label.  The loss it returns is the sum of
\* the float32 batch sums divided by len(loader.dataset): it is the exact
\* sum of the per-sample losses divided by len(loader.dataset) when no batch
\* sum is rounded, as with batches of one sample, and otherwise the summed
\* loss is off the exact sum by at most half a float32 spacing for each
\* addition made inside a batch, so it is independent of batch size and order
\* only up to that rounding.
C15_BatchingUpToRounding ==
  LET ld == LoaderOf(loader)
      n == DatasetLen(ld)
      sums == BatchSums(ld)
  IN pc = "done" =>
       /\ correct = Cardinality(CorrectSamples(ld, w))
       /\ Cardinality(SeenIdxs) = n
       /\ retval = PyFloat(SumSeq(sums) \div n)
       /\ 2 * Abs(SumSeq(sums) - ExactLossSum(ld, w))
            <= (n - Len(sums)) * MaxBatchUnit(ld)
       /\ (\A i \in 1..Len(sums) :
             sums[i] = SumSeq(NllPerSample(Forward(w, Collate(ld, processed[i].idxs).data),
                                           Collate(ld, processed[i].idxs).target)))
            => retval = PyFloat(ExactLossSum(ld, w) \div n)
       /\ ld.batch_size = 1 => retval = PyFloat(ExactLossSum(ld, w) \div n)

\* four samples validated in batches of three and one: the batch sum of the
\* first batch was rounded and the loss returned is not the exact mean
C15_Witness ==
  LET ld == LoaderOf(loader)
  IN /\ pc = "done" /\ DatasetLen(ld) = 4 /\ ld.batch_size = 3
     /\ Len(processed) = 2 /\ correct >= 1
     /\ retval # PyFloat(ExactLossSum(ld, w) \div DatasetLen(ld))

====
